---- MODULE Spec2Model ----
(***************************************************************************)
(* Model of src/database.py: the Database class (watchlists,               *)
(* search_history, user_preferences) driven through one SQLAlchemy         *)
(* session.                                                                *)
(*                                                                         *)
(* A table is the sequence of its rows in rowid order: the primary key id  *)
(* of a row is its identity and is never read by the code, so a row is     *)
(* identified by its position.  db is what the file holds (the committed   *)
(* rows); session is what the session's queries see (the committed rows    *)
(* plus the changes of its open transaction).  commit() copies session to  *)
(* db, rollback() copies db to session.                                    *)
(*                                                                         *)
(* datetime.utcnow is the wall clock.  It has a finite resolution, so two  *)
(* rows written one after the other can carry the same timestamp: time     *)
(* passes in the Tick action only.  An ORDER BY ... DESC leaves the order  *)
(* of rows with equal keys to the engine: every order is possible.         *)
(*                                                                         *)
(* Every handler is one action.  Its input fail names the statement of the *)
(* handler that raises (or "none"): the try/except of each handler is part *)
(* of the action.  result is what the last call showed: its arguments, its *)
(* return value, whether the except branch ran, and how many rows it       *)
(* deleted.                                                                *)
(*                                                                         *)
(* state is the life cycle of the Database object the caller holds:        *)
(* "unopened" (no object: the constructor raised), "open", "closed"        *)
(* (close() was called).  peer is a second Database object on the same     *)
(* file, in another thread or process: where it is in its own              *)
(* add_to_watchlist call.                                                  *)
(***************************************************************************)
EXTENDS Integers, Sequences, FiniteSets, TLC

VARIABLES db, session, clock, result, state, peer

vars == <<db, session, clock, result, state, peer>>

(* ---------------------------------------------------------------- bounds *)

\* user_id values the callers pass
Users == {1, 2}

\* the (user_id, ticker) pairs the watchlist operations are called with
WatchCalls == ({1} \X {"AAPL", "MSFT", "GOOG"}) \cup ({2} \X {"AAPL", "MSFT"})

\* the tickers user 1 searches: one more than the history keeps
SearchTickers == {"AAPL", "MSFT", "GOOG", "AMZN", "TSLA", "NVDA", "META"}

\* the values a caller sets a preference to
PreferenceValues == [default_ticker |-> <<"AAPL", "MSFT">>,
                     default_period |-> <<"1y", "6mo">>,
                     theme |-> <<"dark", "light">>,
                     show_ma50 |-> <<TRUE, FALSE>>,
                     show_ma200 |-> <<TRUE, FALSE>>]

\* the most keys one call of update_user_preferences names
MaxFields == 2

\* the last instant of the wall clock the model reaches
MaxClock == 1

(* ------------------------------------------------------- program constants *)

\* "Keep only the 6 most recent searches": recent_searches[6:], limit(6)
HISTORY_LIMIT == 6

(* ---------------------------------------------------------------- helpers *)

Range(s) == {s[i] : i \in 1..Len(s)}

\* the positions of the rows of a table that satisfy Test
Matching(rows, Test(_)) == {i \in 1..Len(rows) : Test(rows[i])}

\* the table without the rows at the positions in gone
DeleteRows(rows, gone) ==
    LET F[n \in 0..Len(rows)] ==
          IF n = 0 THEN <<>>
          ELSE IF n \in gone THEN F[n - 1] ELSE Append(F[n - 1], rows[n])
    IN  F[Len(rows)]

\* Query.order_by(column.desc()).all() over the rows at the positions in S,
\* key[i] being the ordering column of row i: every sequence of these
\* positions in which the key never increases
RECURSIVE DescOrders(_, _)
DescOrders(key, S) ==
    IF S = {} THEN {<<>>}
    ELSE UNION {
           {<<i>> \o rest : rest \in DescOrders(key, S \ {i})} :
             i \in {j \in S : \A k \in S : key[j] >= key[k]} }

\* session.rollback() that undoes nothing
rollback_skipped(pending) == pending

\* session.rollback() in an except branch: pending is what the session held
\* when the statement raised, and the session is left with the committed rows
rollback(pending) == db

\* Python's None, as a return value and as the argument a handler does not have
None == [none |-> TRUE]

\* an exception that leaves the call: the caller gets no return value
Raised == [raised |-> TRUE]

\* what a call showed: the handler and its arguments, its return value,
\* whether its except branch ran (logger.error), and the rows
\* add_to_search_history deleted: the count Query.delete() returned and
\* len(recent_searches[6:])
Outcome(op, u, arg, ret, err) ==
    [op |-> op, user_id |-> u, arg |-> arg, ret |-> ret, error |-> err,
     deleted |-> 0, evicted |-> 0]

(* -------------------------------------------------------------- watchlist *)

\* class Watchlist
WatchlistRow(u, t, at) == [user_id |-> u, ticker |-> t, added_at |-> at]

\* add_to_watchlist without the check for an existing row
add_to_watchlist_unchecked(u, t, fail) ==
    LET added == [session EXCEPT !.watchlists =
                     Append(@, WatchlistRow(u, t, clock))]
    IN  /\ fail \in {"none", "query", "commit"}
        /\ clock' = clock
        /\ IF fail # "none"
           THEN /\ session' = rollback(IF fail = "query" THEN session ELSE added)
                /\ db' = db
                /\ result' = Outcome("add_to_watchlist", u, t, FALSE, TRUE)
           ELSE /\ session' = added
                /\ db' = added
                /\ result' = Outcome("add_to_watchlist", u, t, TRUE, FALSE)

\* add_to_watchlist whose failure comes after the row was committed
add_to_watchlist_fails_after_commit(u, t, fail) ==
    LET existing == Matching(session.watchlists,
                             LAMBDA r : r.user_id = u /\ r.ticker = t)
        added == [session EXCEPT !.watchlists =
                     Append(@, WatchlistRow(u, t, clock))]
    IN  /\ fail \in {"none", "query", "commit"}
        /\ clock' = clock
        /\ IF fail = "query"
           THEN /\ session' = rollback(session)
                /\ db' = db
                /\ result' = Outcome("add_to_watchlist", u, t, FALSE, TRUE)
           ELSE IF existing = {}
           THEN /\ session' = added
                /\ db' = added
                /\ result' = Outcome("add_to_watchlist", u, t, fail = "none", fail # "none")
           ELSE /\ fail = "none"
                /\ UNCHANGED <<db, session>>
                /\ result' = Outcome("add_to_watchlist", u, t, FALSE, FALSE)

\* Database.add_to_watchlist
add_to_watchlist(u, t, fail) ==
    LET existing == Matching(session.watchlists,
                             LAMBDA r : r.user_id = u /\ r.ticker = t)
        added == [session EXCEPT !.watchlists =
                     Append(@, WatchlistRow(u, t, clock))]
    IN  /\ fail \in {"none", "query", "commit"}
        /\ clock' = clock
        /\ IF fail = "query"
           THEN \* the query raises
                /\ session' = rollback(session)
                /\ db' = db
                /\ result' = Outcome("add_to_watchlist", u, t, FALSE, TRUE)
           ELSE IF existing = {}
           THEN IF fail = "commit"
                THEN \* the INSERT or the COMMIT raises
                     /\ session' = rollback(added)
                     /\ db' = db
                     /\ result' = Outcome("add_to_watchlist", u, t, FALSE, TRUE)
                ELSE /\ session' = added
                     /\ db' = added
                     /\ result' = Outcome("add_to_watchlist", u, t, TRUE, FALSE)
           ELSE \* already in the watchlist: nothing is written, nothing to fail
                /\ fail = "none"
                /\ UNCHANGED <<db, session>>
                /\ result' = Outcome("add_to_watchlist", u, t, FALSE, FALSE)

\* remove_from_watchlist whose query forgets the user_id
remove_from_watchlist_any_user(u, t, fail) ==
    LET found == Matching(session.watchlists, LAMBDA r : r.ticker = t)
    IN  /\ fail \in {"none", "query", "commit"}
        /\ clock' = clock
        /\ IF fail = "query"
           THEN /\ session' = rollback(session)
                /\ db' = db
                /\ result' = Outcome("remove_from_watchlist", u, t, FALSE, TRUE)
           ELSE IF found # {}
           THEN \E i \in found :
                  LET removed == [session EXCEPT !.watchlists = DeleteRows(@, {i})]
                  IN  IF fail = "commit"
                      THEN /\ session' = rollback(removed)
                           /\ db' = db
                           /\ result' = Outcome("remove_from_watchlist", u, t, FALSE, TRUE)
                      ELSE /\ session' = removed
                           /\ db' = removed
                           /\ result' = Outcome("remove_from_watchlist", u, t, TRUE, FALSE)
           ELSE /\ fail = "none"
                /\ UNCHANGED <<db, session>>
                /\ result' = Outcome("remove_from_watchlist", u, t, FALSE, FALSE)

\* remove_from_watchlist that returns without its commit
remove_from_watchlist_uncommitted(u, t, fail) ==
    LET found == Matching(session.watchlists,
                          LAMBDA r : r.user_id = u /\ r.ticker = t)
    IN  /\ fail \in {"none", "query", "commit"}
        /\ clock' = clock
        /\ IF fail = "query"
           THEN /\ session' = rollback(session)
                /\ db' = db
                /\ result' = Outcome("remove_from_watchlist", u, t, FALSE, TRUE)
           ELSE IF found # {}
           THEN \E i \in found :
                  LET removed == [session EXCEPT !.watchlists = DeleteRows(@, {i})]
                  IN  IF fail = "commit"
                      THEN /\ session' = rollback(removed)
                           /\ db' = db
                           /\ result' = Outcome("remove_from_watchlist", u, t, FALSE, TRUE)
                      ELSE /\ session' = removed
                           /\ db' = db
                           /\ result' = Outcome("remove_from_watchlist", u, t, TRUE, FALSE)
           ELSE /\ fail = "none"
                /\ UNCHANGED <<db, session>>
                /\ result' = Outcome("remove_from_watchlist", u, t, FALSE, FALSE)

\* Database.remove_from_watchlist
remove_from_watchlist(u, t, fail) ==
    LET found == Matching(session.watchlists,
                          LAMBDA r : r.user_id = u /\ r.ticker = t)
    IN  /\ fail \in {"none", "query", "commit"}
        /\ clock' = clock
        /\ IF fail = "query"
           THEN \* the query raises
                /\ session' = rollback(session)
                /\ db' = db
                /\ result' = Outcome("remove_from_watchlist", u, t, FALSE, TRUE)
           ELSE IF found # {}
           THEN \* first(): one of the matching rows
                \E i \in found :
                  LET removed == [session EXCEPT !.watchlists = DeleteRows(@, {i})]
                  IN  IF fail = "commit"
                      THEN \* the DELETE or the COMMIT raises
                           /\ session' = rollback(removed)
                           /\ db' = db
                           /\ result' = Outcome("remove_from_watchlist", u, t, FALSE, TRUE)
                      ELSE /\ session' = removed
                           /\ db' = removed
                           /\ result' = Outcome("remove_from_watchlist", u, t, TRUE, FALSE)
           ELSE \* not in the watchlist: nothing is written, nothing to fail
                /\ fail = "none"
                /\ UNCHANGED <<db, session>>
                /\ result' = Outcome("remove_from_watchlist", u, t, FALSE, FALSE)

\* what get_watchlist can return when its query succeeds
WatchlistResults(rows, u) ==
    LET mine == Matching(rows, LAMBDA r : r.user_id = u)
        added_at == [i \in 1..Len(rows) |-> rows[i].added_at]
    IN  {[k \in 1..Len(o) |-> rows[o[k]].ticker] : o \in DescOrders(added_at, mine)}

\* Database.get_watchlist
get_watchlist(u, fail) ==
    /\ fail \in {"none", "query"}
    /\ UNCHANGED <<db, session, clock>>
    /\ IF fail = "query"
       THEN result' = Outcome("get_watchlist", u, None, <<>>, TRUE)
       ELSE \E tickers \in WatchlistResults(session.watchlists, u) :
              result' = Outcome("get_watchlist", u, None, tickers, FALSE)

(* --------------------------------------------------------- search history *)

\* class SearchHistory
SearchHistoryRow(u, t, at) == [user_id |-> u, ticker |-> t, searched_at |-> at]

\* the searched_at column, by row position
SearchedAt(rows) == [i \in 1..Len(rows) |-> rows[i].searched_at]

\* the rows past the first HISTORY_LIMIT + 1 instead: recent_searches[7:]
OldSearches_off_by_one(rows, u) ==
    LET mine == Matching(rows, LAMBDA r : r.user_id = u)
        at == SearchedAt(rows)
    IN  IF Cardinality(mine) > HISTORY_LIMIT + 1
        THEN {old \in SUBSET mine :
                /\ Cardinality(old) = Cardinality(mine) - (HISTORY_LIMIT + 1)
                /\ \A i \in old, j \in mine \ old : at[i] <= at[j]}
        ELSE {{}}

\* the query of the rows to keep without its filter_by(user_id)
OldSearches_all_users(rows, u) ==
    LET mine == 1..Len(rows)
        at == SearchedAt(rows)
    IN  IF Cardinality(mine) > HISTORY_LIMIT
        THEN {old \in SUBSET mine :
                /\ Cardinality(old) = Cardinality(mine) - HISTORY_LIMIT
                /\ \A i \in old, j \in mine \ old : at[i] <= at[j]}
        ELSE {{}}

\* recent_searches[HISTORY_LIMIT:] of add_to_search_history: the positions of
\* the rows its loop deletes.  The query returns the user's rows by searched_at
\* descending, in any order among equal timestamps, so the rows past the first
\* HISTORY_LIMIT are any set of that many rows none of which is newer than a
\* row before them
OldSearches(rows, u) ==
    LET mine == Matching(rows, LAMBDA r : r.user_id = u)
        at == SearchedAt(rows)
    IN  IF Cardinality(mine) > HISTORY_LIMIT
        THEN {old \in SUBSET mine :
                /\ Cardinality(old) = Cardinality(mine) - HISTORY_LIMIT
                /\ \A i \in old, j \in mine \ old : at[i] <= at[j]}
        ELSE {{}}

\* a Query.delete() that deletes nothing
ExistingSearches_none(rows, u, t) == {}

\* the rows Query.filter_by(user_id, ticker).delete() deletes
ExistingSearches(rows, u, t) ==
    Matching(rows, LAMBDA r : r.user_id = u /\ r.ticker = t)

\* Database.add_to_search_history
add_to_search_history(u, t, fail) ==
    LET existing == ExistingSearches(session.search_history, u, t)
        deleted == [session EXCEPT !.search_history = DeleteRows(@, existing)]
        inserted == [deleted EXCEPT !.search_history =
                        Append(@, SearchHistoryRow(u, t, clock))]
        Failed(pending) ==
            /\ session' = rollback(pending)
            /\ db' = db
            /\ result' = Outcome("add_to_search_history", u, t, None, TRUE)
    IN  /\ fail \in {"none", "delete", "insert", "query", "commit"}
        /\ clock' = clock
        /\ IF fail = "delete"
           THEN \* the DELETE raises
                Failed(session)
           ELSE IF fail = "insert"
           THEN \* the query flushes the new row first: the INSERT raises
                Failed(deleted)
           ELSE IF fail = "query"
           THEN \* the SELECT raises
                Failed(inserted)
           ELSE \E old \in OldSearches(inserted.search_history, u) :
                  LET kept == [inserted EXCEPT !.search_history = DeleteRows(@, old)]
                  IN  IF fail = "commit"
                      THEN \* a DELETE of the loop or the COMMIT raises
                           Failed(kept)
                      ELSE /\ session' = kept
                           /\ db' = kept
                           /\ result' = [Outcome("add_to_search_history", u, t, None, FALSE)
                                            EXCEPT !.deleted = Cardinality(existing),
                                                   !.evicted = Cardinality(old)]

\* what get_recent_searches can return when its query succeeds
RecentSearchesResults(rows, u) ==
    LET mine == Matching(rows, LAMBDA r : r.user_id = u)
    IN  {[k \in 1..(IF Len(o) < HISTORY_LIMIT THEN Len(o) ELSE HISTORY_LIMIT)
             |-> rows[o[k]].ticker] : o \in DescOrders(SearchedAt(rows), mine)}

\* Database.get_recent_searches
get_recent_searches(u, fail) ==
    /\ fail \in {"none", "query"}
    /\ UNCHANGED <<db, session, clock>>
    /\ IF fail = "query"
       THEN result' = Outcome("get_recent_searches", u, None, <<>>, TRUE)
       ELSE \E tickers \in RecentSearchesResults(session.search_history, u) :
              result' = Outcome("get_recent_searches", u, None, tickers, FALSE)

(* ------------------------------------------------------------ preferences *)

\* the keys update_user_preferences reads from its preferences argument
PreferenceKeys == {"default_ticker", "default_period", "theme", "show_ma50", "show_ma200"}

\* defaults with the light theme
Defaults_light == [default_ticker |-> "AAPL", default_period |-> "1y", theme |-> "light",
                   show_ma50 |-> TRUE, show_ma200 |-> TRUE]

\* the defaults of update_user_preferences when it creates the record
Defaults == [default_ticker |-> "AAPL", default_period |-> "1y", theme |-> "dark",
             show_ma50 |-> TRUE, show_ma200 |-> TRUE]

\* dict.get(key, default)
DictGet(d, key, default) == IF key \in DOMAIN d THEN d[key] ELSE default

\* class UserPreferences
UserPreferencesRow(u, values, at) ==
    [user_id |-> u,
     default_ticker |-> values.default_ticker,
     default_period |-> values.default_period,
     theme |-> values.theme,
     show_ma50 |-> values.show_ma50,
     show_ma200 |-> values.show_ma200,
     updated_at |-> at]

\* a user_preferences table declared without unique=True
IntegrityError_unenforced(rows) == FALSE

\* user_id = Column(Integer, unique=True): the INSERT of a second row for a
\* user_id raises IntegrityError
IntegrityError(rows) ==
    \E i, j \in 1..Len(rows) : i # j /\ rows[i].user_id = rows[j].user_id

\* the defaults whether or not the record exists
StoredOrDefault_always_default(rows, i) ==
    IF i = 0 THEN Defaults
    ELSE [k \in DOMAIN rows[i] |-> IF k \in PreferenceKeys THEN Defaults[k] ELSE rows[i][k]]

\* the second argument of each preferences.get: the stored value when the
\* record exists (row i), the default when it does not (i = 0)
StoredOrDefault(rows, i) == IF i = 0 THEN Defaults ELSE rows[i]

\* Database.update_user_preferences
update_user_preferences(u, preferences, fail) ==
    LET rows == session.user_preferences
        found == Matching(rows, LAMBDA r : r.user_id = u)
    IN  /\ fail \in {"none", "query", "commit"}
        /\ clock' = clock
        /\ IF fail = "query"
           THEN \* the query raises
                /\ session' = rollback(session)
                /\ db' = db
                /\ result' = Outcome("update_user_preferences", u, preferences, FALSE, TRUE)
           ELSE \* first(): one of the matching rows, or None (0)
                \E i \in (IF found = {} THEN {0} ELSE found) :
                  LET prefs == StoredOrDefault(rows, i)
                      values == [k \in PreferenceKeys |->
                                    DictGet(preferences, k, prefs[k])]
                      \* onupdate: the UPDATE is sent, and updated_at refreshed,
                      \* only when a column changes
                      at == IF i # 0 /\ \A k \in PreferenceKeys : values[k] = rows[i][k]
                            THEN rows[i].updated_at ELSE clock
                      row == UserPreferencesRow(u, values, at)
                      saved == [session EXCEPT !.user_preferences =
                                   IF i = 0 THEN Append(@, row)
                                   ELSE [@ EXCEPT ![i] = row]]
                  IN  IF fail = "commit" \/ IntegrityError(saved.user_preferences)
                      THEN \* the INSERT, the UPDATE or the COMMIT raises
                           /\ session' = rollback(saved)
                           /\ db' = db
                           /\ result' = Outcome("update_user_preferences", u, preferences, FALSE, TRUE)
                      ELSE /\ session' = saved
                           /\ db' = saved
                           /\ result' = Outcome("update_user_preferences", u, preferences, TRUE, FALSE)

\* what get_user_preferences can return when its query succeeds
UserPreferencesResults(rows, u) ==
    LET found == Matching(rows, LAMBDA r : r.user_id = u)
    IN  IF found # {}
        THEN {[k \in PreferenceKeys |-> rows[i][k]] : i \in found}
        ELSE {None}

\* get_user_preferences that lets the exception through
get_user_preferences_reraises(u, fail) ==
    /\ fail \in {"none", "query"}
    /\ UNCHANGED <<db, session, clock>>
    /\ IF fail = "query"
       THEN result' = Outcome("get_user_preferences", u, None, Raised, TRUE)
       ELSE \E prefs \in UserPreferencesResults(session.user_preferences, u) :
              result' = Outcome("get_user_preferences", u, None, prefs, FALSE)

\* Database.get_user_preferences
get_user_preferences(u, fail) ==
    /\ fail \in {"none", "query"}
    /\ UNCHANGED <<db, session, clock>>
    /\ IF fail = "query"
       THEN result' = Outcome("get_user_preferences", u, None, None, TRUE)
       ELSE \E prefs \in UserPreferencesResults(session.user_preferences, u) :
              result' = Outcome("get_user_preferences", u, None, prefs, FALSE)

(* ------------------------------------------------------------- life cycle *)

\* the Database object init_db returns
Handle == [database |-> TRUE]

\* a create_all that drops the tables it finds
create_all_fresh(file) == [watchlists |-> <<>>, search_history |-> <<>>,
                           user_preferences |-> <<>>]

\* Base.metadata.create_all(self.engine): CREATE TABLE for each of the three
\* tables the file does not hold yet; a table that exists is left as it is
create_all(file) ==
    [t \in {"watchlists", "search_history", "user_preferences"} |->
       IF t \in DOMAIN file THEN file[t] ELSE <<>>]

\* a constructor that logs the exception and returns
__init__swallowed(fail) ==
    /\ fail \in {"none", "engine", "create_all"}
    /\ clock' = clock
    /\ peer' = peer
    /\ db' = IF fail = "none" THEN create_all(db) ELSE db
    /\ session' = db'
    /\ state' = "open"
    /\ result' = Outcome("__init__", 0, None, None, fail # "none")

\* Database.__init__ on the file: the except branch logs and raises again, so
\* the caller is left without an object; otherwise the new session reads the
\* rows the file holds
__init__(fail) ==
    /\ fail \in {"none", "engine", "create_all"}
    /\ clock' = clock
    /\ peer' = peer
    /\ IF fail # "none"
       THEN \* create_engine or create_all raises
            /\ UNCHANGED <<db, session>>
            /\ state' = "unopened"
            /\ result' = Outcome("__init__", 0, None, Raised, TRUE)
       ELSE /\ db' = create_all(db)
            /\ session' = db'
            /\ state' = "open"
            /\ result' = Outcome("__init__", 0, None, None, FALSE)

\* init_db: Database() with its exception caught: the caller gets the object
\* or None
init_db(fail) ==
    /\ fail \in {"none", "engine", "create_all"}
    /\ clock' = clock
    /\ peer' = peer
    /\ IF fail # "none"
       THEN /\ UNCHANGED <<db, session>>
            /\ state' = "unopened"
            /\ result' = Outcome("init_db", 0, None, None, TRUE)
       ELSE /\ db' = create_all(db)
            /\ session' = db'
            /\ state' = "open"
            /\ result' = Outcome("init_db", 0, None, Handle, FALSE)

\* a close without its try/except
close_unguarded(fail) ==
    /\ fail \in {"none", "close"}
    /\ UNCHANGED <<db, clock, peer>>
    /\ session' = rollback(session)
    /\ state' = "closed"
    /\ result' = Outcome("close", 0, None, IF fail = "none" THEN None ELSE Raised,
                         fail # "none")

\* Database.close: session.close() ends the session's transaction, what was
\* not committed is dropped; an exception is logged.  The Session object stays
\* and begins a new transaction at its next use.
close(fail) ==
    /\ fail \in {"none", "close"}
    /\ UNCHANGED <<db, clock, peer>>
    /\ session' = rollback(session)
    /\ state' = "closed"
    /\ result' = Outcome("close", 0, None, None, fail # "none")

(* ---------------------------------------------- a second Database object *)

\* The second object has its own session on the same file.  Its handlers run
\* the code of the handlers above, one statement at a time: between its query
\* and its commit the first object can run a whole call.  A query reads the
\* committed rows: both sessions hold nothing pending between calls.  peer
\* holds the call the second object is in (op, user_id, arg), what its query
\* found (found: the row's position, 0 for no row; loaded: the row as it was
\* read), and what its last finished call returned (ret, error).

\* add_to_watchlist of the second object, up to its query: existing = ...first()
peer_add_to_watchlist_query(u, t) ==
    /\ peer.pc = "idle"
    /\ LET existing == Matching(db.watchlists,
                                LAMBDA r : r.user_id = u /\ r.ticker = t)
       IN  \E i \in (IF existing = {} THEN {0} ELSE existing) :
             peer' = [pc |-> "queried", op |-> "add_to_watchlist", user_id |-> u,
                      arg |-> t, found |-> i,
                      loaded |-> IF i = 0 THEN None ELSE db.watchlists[i],
                      ret |-> None, error |-> FALSE]
    /\ UNCHANGED <<db, session, clock, result, state>>

\* add_to_watchlist of the second object, after its query: "if not existing"
\* decides on what the query returned, whatever was committed since
peer_add_to_watchlist_commit ==
    /\ peer.pc = "queried"
    /\ peer.op = "add_to_watchlist"
    /\ IF peer.found = 0
       THEN LET added == [db EXCEPT !.watchlists =
                             Append(@, WatchlistRow(peer.user_id, peer.arg, clock))]
            IN  /\ db' = added
                \* the first object's next query reads the committed rows
                /\ session' = added
                /\ peer' = [peer EXCEPT !.pc = "idle", !.ret = TRUE]
       ELSE /\ peer' = [peer EXCEPT !.pc = "idle", !.ret = FALSE]
            /\ UNCHANGED <<db, session>>
    /\ UNCHANGED <<clock, result, state>>

\* update_user_preferences of the second object, up to its query
peer_update_user_preferences_query(u, preferences) ==
    /\ peer.pc = "idle"
    /\ LET found == Matching(db.user_preferences, LAMBDA r : r.user_id = u)
       IN  \E i \in (IF found = {} THEN {0} ELSE found) :
             peer' = [pc |-> "queried", op |-> "update_user_preferences",
                      user_id |-> u, arg |-> preferences, found |-> i,
                      loaded |-> IF i = 0 THEN None ELSE db.user_preferences[i],
                      ret |-> None, error |-> FALSE]
    /\ UNCHANGED <<db, session, clock, result, state>>

\* update_user_preferences of the second object, after its query: it assigns
\* the fields of the object it loaded, or adds a new record, and commits.  The
\* UPDATE writes the columns whose value the assignments changed.
peer_update_user_preferences_commit ==
    /\ peer.pc = "queried"
    /\ peer.op = "update_user_preferences"
    /\ LET rows == db.user_preferences
           i == peer.found
           prefs == IF i = 0 THEN Defaults ELSE peer.loaded
           values == [k \in PreferenceKeys |-> DictGet(peer.arg, k, prefs[k])]
           changed == IF i = 0 THEN PreferenceKeys
                      ELSE {k \in PreferenceKeys : values[k] # peer.loaded[k]}
           row == IF i = 0 THEN UserPreferencesRow(peer.user_id, values, clock)
                  ELSE IF changed = {} THEN rows[i]
                  ELSE [k \in DOMAIN rows[i] |->
                          IF k \in changed THEN values[k]
                          ELSE IF k = "updated_at" THEN clock ELSE rows[i][k]]
           saved == [db EXCEPT !.user_preferences =
                        IF i = 0 THEN Append(@, row) ELSE [@ EXCEPT ![i] = row]]
       IN  IF IntegrityError(saved.user_preferences)
           THEN \* the INSERT raises: rollback, return False
                /\ peer' = [peer EXCEPT !.pc = "idle", !.ret = FALSE, !.error = TRUE]
                /\ UNCHANGED <<db, session>>
           ELSE /\ db' = saved
                /\ session' = saved
                /\ peer' = [peer EXCEPT !.pc = "idle", !.ret = TRUE]
    /\ UNCHANGED <<clock, result, state>>

(* ------------------------------------------------------------------ clock *)

\* time passes between two reads of datetime.utcnow
Tick ==
    /\ clock < MaxClock
    /\ clock' = clock + 1
    /\ UNCHANGED <<db, session, result, state, peer>>

(* ---------------------------------------------------------- specification *)

\* the second Database object before its first call
Idle == [pc |-> "idle", op |-> "__init__", user_id |-> 0, arg |-> None,
         found |-> 0, loaded |-> None, ret |-> None, error |-> FALSE]

\* a call of a method of the Database object the caller holds: there is no
\* call without an object, and no handler touches the object's life cycle or
\* the other object
Method(handler) ==
    /\ state # "unopened"
    /\ handler
    /\ UNCHANGED <<state, peer>>

EmptyTables == [watchlists |-> <<>>, search_history |-> <<>>, user_preferences |-> <<>>]

\* nothing was called yet
FirstOutcome == [op |-> "__init__", user_id |-> 0, arg |-> None, ret |-> None,
                 error |-> FALSE, deleted |-> 0, evicted |-> 0]

\* a file that holds no table yet
NewFile == [t \in {} |-> <<>>]

\* Database.__init__ on a new file: create_all makes the three tables, empty
Init ==
    /\ db = create_all(NewFile)
    /\ session = db
    /\ clock = 0
    /\ result = FirstOutcome
    /\ state = "open"
    /\ peer = Idle

AddToWatchlist == \E c \in WatchCalls, fail \in {"none", "query", "commit"} :
                     Method(add_to_watchlist(c[1], c[2], fail))

RemoveFromWatchlist == \E c \in WatchCalls, fail \in {"none", "query", "commit"} :
                          Method(remove_from_watchlist(c[1], c[2], fail))

GetWatchlist == \E u \in Users, fail \in {"none", "query"} :
                   Method(get_watchlist(u, fail))

NextWatchlist == AddToWatchlist \/ RemoveFromWatchlist \/ GetWatchlist \/ Tick

SpecWatchlist == Init /\ [][NextWatchlist]_vars

\* user 1 fills the history past its limit, no statement failing: SpecRecent
\* fails every statement
AddToSearchHistory == \E t \in SearchTickers :
                         Method(add_to_search_history(1, t, "none"))

NextSearch == AddToSearchHistory \/ Tick

\* Database.__init__ on the file of an earlier run in which user 2 searched
\* one ticker: create_all leaves the existing rows alone
InitSearch ==
    LET tables == [EmptyTables EXCEPT !.search_history =
                      <<SearchHistoryRow(2, "AAPL", 0)>>]
    IN  /\ db = tables
        /\ session = tables
        /\ clock = 0
        /\ result = FirstOutcome
        /\ state = "open"
        /\ peer = Idle
    
SpecSearch == InitSearch /\ [][NextSearch]_vars

\* the preferences arguments of the calls: every map of at most MaxFields keys
PreferenceMaps ==
    {[k \in keys |-> PreferenceValues[k][pick[k]]] :
       keys \in {ks \in SUBSET PreferenceKeys : Cardinality(ks) <= MaxFields},
       pick \in [PreferenceKeys -> 1..2]}

\* the (user_id, preferences) pairs update_user_preferences is called with
PreferenceCalls ==
    ({1} \X PreferenceMaps)
      \cup ({2} \X {m \in PreferenceMaps : DOMAIN m \subseteq {"theme"}})

UpdateUserPreferences ==
    \E c \in PreferenceCalls, fail \in {"none", "query", "commit"} :
      Method(update_user_preferences(c[1], c[2], fail))

GetUserPreferences == \E u \in Users, fail \in {"none", "query"} :
                         Method(get_user_preferences(u, fail))

NextPreferences == UpdateUserPreferences \/ GetUserPreferences

SpecPreferences == Init /\ [][NextPreferences]_vars

\* the (user_id, ticker) pairs of the searches that are read back
RecentCalls == ({1} \X {"AAPL", "MSFT", "GOOG"}) \cup ({2} \X {"AAPL", "MSFT"})

AddToRecentSearches == \E c \in RecentCalls,
                            fail \in {"none", "delete", "insert", "query", "commit"} :
                          Method(add_to_search_history(c[1], c[2], fail))

GetRecentSearches == \E u \in Users, fail \in {"none", "query"} :
                        Method(get_recent_searches(u, fail))

NextRecent == AddToRecentSearches \/ GetRecentSearches \/ Tick

SpecRecent == Init /\ [][NextRecent]_vars

\* The whole life of a Database object on the file of an earlier run: user 1
\* searched six tickers then, user 2 one.  The caller calls every handler,
\* closes the object, and constructs a new one when it holds none that is open.
\* All of it happens within one reading of the clock: what passing time does to
\* the orderings is in SpecWatchlist, SpecSearch and SpecRecent.
StoreWatchCalls == {<<1, "AAPL">>, <<2, "AAPL">>}

StoreSearchCalls == {<<1, "AAPL">>, <<1, "META">>, <<2, "MSFT">>}

StorePreferenceCalls == {<<1, [theme |-> "light"]>>, <<1, [show_ma50 |-> FALSE]>>,
                         <<2, [theme |-> "light"]>>}

StoreAddToWatchlist == \E c \in StoreWatchCalls, fail \in {"none", "query", "commit"} :
                          Method(add_to_watchlist(c[1], c[2], fail))

StoreRemoveFromWatchlist == \E c \in StoreWatchCalls, fail \in {"none", "query", "commit"} :
                               Method(remove_from_watchlist(c[1], c[2], fail))

StoreAddToSearchHistory == \E c \in StoreSearchCalls, fail \in {"none", "insert", "commit"} :
                              Method(add_to_search_history(c[1], c[2], fail))

StoreUpdateUserPreferences ==
    \E c \in StorePreferenceCalls, fail \in {"none", "query", "commit"} :
      Method(update_user_preferences(c[1], c[2], fail))

Open == \E fail \in {"none", "engine", "create_all"} :
          state \in {"closed", "unopened"} /\ __init__(fail)

InitDb == \E fail \in {"none", "engine", "create_all"} :
            state \in {"closed", "unopened"} /\ init_db(fail)

Close == \E fail \in {"none", "close"} : state # "unopened" /\ close(fail)

NextStore ==
    \/ StoreAddToWatchlist
    \/ StoreRemoveFromWatchlist
    \/ GetWatchlist
    \/ StoreAddToSearchHistory
    \/ GetRecentSearches
    \/ StoreUpdateUserPreferences
    \/ GetUserPreferences
    \/ Open
    \/ InitDb
    \/ Close

InitStore ==
    LET tables == [EmptyTables EXCEPT !.search_history =
                      <<SearchHistoryRow(1, "AAPL", -6), SearchHistoryRow(1, "MSFT", -5),
                        SearchHistoryRow(2, "AAPL", -4), SearchHistoryRow(1, "GOOG", -4),
                        SearchHistoryRow(1, "AMZN", -3), SearchHistoryRow(1, "TSLA", -2),
                        SearchHistoryRow(1, "NVDA", -1)>>]
    IN  /\ db = tables
        /\ session = tables
        /\ clock = 0
        /\ result = FirstOutcome
        /\ state = "open"
        /\ peer = Idle

SpecStore == InitStore /\ [][NextStore]_vars

\* the calls two Database objects on one file make: a watchlist pair and the
\* preferences of one user from both objects, another pair and another user
\* from one object each
SharedWatchCalls == {<<1, "AAPL">>, <<2, "MSFT">>}

PeerWatchCalls == {<<1, "AAPL">>, <<2, "AAPL">>}

SharedPreferenceCalls == {<<1, [theme |-> "light"]>>, <<2, [theme |-> "light"]>>}

PeerPreferenceCalls == {<<1, [default_period |-> "6mo"]>>}

SharedAddToWatchlist == \E c \in SharedWatchCalls :
                           Method(add_to_watchlist(c[1], c[2], "none"))

SharedUpdateUserPreferences == \E c \in SharedPreferenceCalls :
                                  Method(update_user_preferences(c[1], c[2], "none"))

PeerAddToWatchlistQuery == \E c \in PeerWatchCalls :
                              peer_add_to_watchlist_query(c[1], c[2])

PeerUpdateUserPreferencesQuery == \E c \in PeerPreferenceCalls :
                                     peer_update_user_preferences_query(c[1], c[2])

NextShared ==
    \/ SharedAddToWatchlist
    \/ SharedUpdateUserPreferences
    \/ PeerAddToWatchlistQuery
    \/ peer_add_to_watchlist_commit
    \/ PeerUpdateUserPreferencesQuery
    \/ peer_update_user_preferences_commit
    \/ Tick

SpecShared == Init /\ [][NextShared]_vars

\* every handler, called by both users, and both objects
Next == NextWatchlist \/ NextRecent \/ NextPreferences \/ NextStore \/ NextShared

Spec == Init /\ [][Next]_vars

(* ------------------------------------------------------------------ claims *)

\* the rows of a table for one (user_id, ticker)
RowsFor(rows, u, t) == Matching(rows, LAMBDA r : r.user_id = u /\ r.ticker = t)

\* the rows of a table for one user_id
RowsOf(rows, u) == Matching(rows, LAMBDA r : r.user_id = u)

AllTickers == SearchTickers

\* a step is a call of the handler op: result' describes it
Called(op) == result'.op = op /\ clock' = clock

\* C1: after any sequence of add_to_watchlist / remove_from_watchlist calls the
\* watchlist holds at most one row per (user_id, ticker); an add_to_watchlist
\* that returns True found no row and leaves exactly one, and one that finds
\* the row (the second of two calls in a row) returns False and adds none.
C1_WatchlistUnique ==
    /\ [](\A u \in Users, t \in AllTickers :
            Cardinality(RowsFor(db.watchlists, u, t)) <= 1)
    /\ [][Called("add_to_watchlist") =>
            LET before == Cardinality(RowsFor(db.watchlists, result'.user_id, result'.arg))
                after == Cardinality(RowsFor(db'.watchlists, result'.user_id, result'.arg))
            IN  /\ result'.ret => before = 0 /\ after = 1
                /\ before = 0 /\ ~result'.error => result'.ret
                /\ before > 0 => ~result'.ret /\ after = before]_vars

\* C1 witness: a second add of a pair returned False without failing, the
\* pair's row being there once
C1_Witness ==
    /\ result.op = "add_to_watchlist"
    /\ ~result.ret
    /\ ~result.error
    /\ Cardinality(RowsFor(db.watchlists, result.user_id, result.arg)) = 1

\* the tickers of a user's rows, in rowid order: the order they were written in
TickersOf(rows, u) ==
    LET mine == SelectSeq(rows, LAMBDA r : r.user_id = u)
    IN  [i \in 1..Len(mine) |-> mine[i].ticker]

Reverse(s) == [i \in 1..Len(s) |-> s[Len(s) + 1 - i]]

\* C2: after any sequence of add_to_search_history calls every committed state
\* holds at most 6 search_history rows per user_id.
C2_HistoryBounded ==
    \A u \in Users : Cardinality(RowsOf(db.search_history, u)) <= 6

\* C2 witness: a search deleted rows past the limit and its user holds 6 rows
C2_Witness ==
    /\ result.op = "add_to_search_history"
    /\ result.evicted > 0
    /\ Cardinality(RowsOf(db.search_history, result.user_id)) = 6

\* C3: when add_to_search_history pushes a user past 6 rows, the rows that
\* remain are the 6 most recently searched tickers: the first-searched one is
\* evicted and the newly searched one is kept.
C3_EvictsOldest ==
    [][Called("add_to_search_history") /\ ~result'.error =>
         LET u == result'.user_id
             t == result'.arg
             searched == TickersOf(DeleteRows(db.search_history,
                                              RowsFor(db.search_history, u, t)), u)
                           \o <<t>>
             left == TickersOf(db'.search_history, u)
         IN  Len(searched) > 6 =>
               /\ left = SubSeq(searched, Len(searched) - 5, Len(searched))
               /\ t \in Range(left)
               /\ searched[1] \notin Range(left)]_vars

\* C4: every committed state holds at most one search_history row per
\* (user_id, ticker), and add_to_search_history of a ticker the user already
\* has does not increase the user's row count.
C4_SearchUnique ==
    /\ [](\A u \in Users, t \in AllTickers :
            Cardinality(RowsFor(db.search_history, u, t)) <= 1)
    /\ [][Called("add_to_search_history")
            /\ RowsFor(db.search_history, result'.user_id, result'.arg) # {} =>
              Cardinality(RowsOf(db'.search_history, result'.user_id))
                <= Cardinality(RowsOf(db.search_history, result'.user_id))]_vars

\* C4 witness: a search replaced the row its user had for the ticker
C4_Witness ==
    /\ result.op = "add_to_search_history"
    /\ ~result.error
    /\ result.deleted = 1
    /\ Cardinality(RowsFor(db.search_history, result.user_id, result.arg)) = 1

\* C5: right after a successful add_to_search_history(user_id, ticker),
\* get_recent_searches(user_id) returns at most 6 tickers, most recent first,
\* the first being that ticker.
C5_RecentFirst ==
    [][/\ Called("get_recent_searches") /\ ~result'.error
       /\ result.op = "add_to_search_history" /\ ~result.error
       /\ result.user_id = result'.user_id
       => /\ Len(result'.ret) \in 1..6
          /\ result'.ret[1] = result.arg
          /\ result'.ret = Reverse(TickersOf(session.search_history, result'.user_id))]_vars

C7_WatchlistOrder ==
    [][Called("get_watchlist") /\ ~result'.error =>
         result'.ret = Reverse(TickersOf(session.watchlists, result'.user_id))]_vars

\* C8: remove_from_watchlist returns True exactly when a row for
\* (user_id, ticker) existed and its delete was committed, the other rows
\* staying; when no such row exists it returns False and leaves the table
\* unchanged.
C8_RemoveResult ==
    [][Called("remove_from_watchlist") =>
         LET before == RowsFor(db.watchlists, result'.user_id, result'.arg)
         IN  /\ result'.ret <=> /\ before # {}
                                /\ \E i \in before :
                                     db'.watchlists = DeleteRows(db.watchlists, {i})
             /\ before = {} => ~result'.ret /\ db'.watchlists = db.watchlists]_vars

\* C8 witness: a remove of a pair that has no row returned False without
\* failing, the table holding other rows
C8_Witness ==
    /\ result.op = "remove_from_watchlist"
    /\ ~result.ret
    /\ ~result.error
    /\ RowsFor(db.watchlists, result.user_id, result.arg) = {}
    /\ db.watchlists # <<>>

\* the defaults the specification gives
StatedDefaults == [default_ticker |-> "AAPL", default_period |-> "1y", theme |-> "dark",
                   show_ma50 |-> TRUE, show_ma200 |-> TRUE]

\* C9: get_user_preferences of a user with no record returns None; after the
\* update_user_preferences that creates the record, get_user_preferences
\* returns the given value for every key given and the default for every other.
C9_FirstUpdate ==
    [][/\ Called("get_user_preferences") /\ ~result'.error
            /\ RowsOf(db.user_preferences, result'.user_id) = {}
          => result'.ret = None
       /\ Called("update_user_preferences") /\ result'.ret
            /\ RowsOf(db.user_preferences, result'.user_id) = {}
          => UserPreferencesResults(session'.user_preferences, result'.user_id) =
               {[k \in PreferenceKeys |->
                   IF k \in DOMAIN result'.arg THEN result'.arg[k]
                   ELSE StatedDefaults[k]]}]_vars

\* C9 witness: the update {theme: "light"} committed and the record reads
\* theme light, everything else at its default
C9_Witness ==
    /\ result.op = "update_user_preferences"
    /\ result.ret
    /\ result.arg = [theme |-> "light"]
    /\ UserPreferencesResults(session.user_preferences, result.user_id) =
         {[StatedDefaults EXCEPT !.theme = "light"]}

\* C10: update_user_preferences on an existing record leaves every field whose
\* key is not given at its previous value, and sets every key given when it
\* commits: each field holds the value of the last committed update naming it.
C10_UpdateKeeps ==
    [][Called("update_user_preferences") =>
         \A i \in RowsOf(db.user_preferences, result'.user_id), k \in PreferenceKeys :
           db'.user_preferences[i][k] =
             IF result'.ret /\ k \in DOMAIN result'.arg
             THEN result'.arg[k]
             ELSE db.user_preferences[i][k]]_vars

\* C10 witness: an update committed on a record that holds more non-default
\* fields than the update names: one of them is an earlier update's
C10_Witness ==
    /\ result.op = "update_user_preferences"
    /\ result.ret
    /\ \E i \in RowsOf(db.user_preferences, result.user_id) :
         \E k \in PreferenceKeys \ DOMAIN result.arg :
           db.user_preferences[i][k] # StatedDefaults[k]

\* C11: in every reachable state the user_preferences table holds at most one
\* record per user_id, whatever update_user_preferences calls were made for
\* whatever users, from one Database object or from two on the same file.
C11_PreferencesUnique ==
    \A u \in Users : Cardinality(RowsOf(db.user_preferences, u)) <= 1

\* C11 witness: the second object found no record, the first object created
\* it meanwhile, and the second object's INSERT was refused
C11_Witness ==
    /\ peer.pc = "idle"
    /\ peer.op = "update_user_preferences"
    /\ peer.found = 0
    /\ peer.error
    /\ Cardinality(RowsOf(db.user_preferences, peer.user_id)) = 1

\* the handlers that change rows and return a bool
BoolWrites == {"add_to_watchlist", "remove_from_watchlist", "update_user_preferences"}

\* the handlers that only read
Reads == {"get_watchlist", "get_recent_searches", "get_user_preferences"}

\* the handlers of the three tables
TableOps == BoolWrites \cup Reads \cup {"add_to_search_history"}

\* the rows of a table that belong to other users than u, in rowid order
Others(rows, u) == SelectSeq(rows, LAMBDA r : r.user_id # u)

\* C12: an add_to_watchlist, remove_from_watchlist or update_user_preferences
\* in which a statement fails returns False (nothing is raised to the caller)
\* and leaves the committed rows of all three tables as they were.
C12_FailedWriteReturnsFalse ==
    [][(\E op \in BoolWrites : Called(op)) /\ result'.error =>
         result'.ret = FALSE /\ db' = db]_vars

\* C12 witness: an update_user_preferences failed and returned False, the
\* three tables holding rows
C12_Witness ==
    /\ result.op = "update_user_preferences"
    /\ result.error
    /\ result.ret = FALSE
    /\ db.watchlists # <<>> /\ db.search_history # <<>> /\ db.user_preferences # <<>>

\* C13: a table operation called after close() fails at once and changes no
\* row.
C13_ClosedFailsFast ==
    [][state = "closed" /\ (\E op \in TableOps : Called(op)) =>
         result'.error /\ db' = db]_vars

\* C14: close() and a later Database.__init__ (or init_db) on the same file
\* leave every committed row of the three tables as it was, and the new
\* object's session reads exactly these rows.
C14_ReopenPreserves ==
    [][Called("close") \/ Called("__init__") \/ Called("init_db") =>
         /\ db' = db
         /\ result'.op # "close" /\ ~result'.error =>
               state' = "open" /\ session' = db]_vars

\* C14 witness: a Database was constructed again on a file whose three tables
\* hold rows
C14_Witness ==
    /\ result.op = "__init__"
    /\ ~result.error
    /\ state = "open"
    /\ db.watchlists # <<>> /\ db.search_history # <<>> /\ db.user_preferences # <<>>
    /\ session = db

\* C15: get_watchlist, get_recent_searches and get_user_preferences change no
\* row of any table and raise nothing: when the query fails the first two
\* return the empty list and get_user_preferences returns None.
C15_ReadsHarmless ==
    [][/\ (\E op \in Reads : Called(op)) => db' = db /\ session' = session
       /\ (Called("get_watchlist") \/ Called("get_recent_searches")) /\ result'.error
            => result'.ret = <<>>
       /\ Called("get_user_preferences") /\ result'.error => result'.ret = None]_vars

\* C15 witness: get_user_preferences failed for a user who has a record, and
\* returned None
C15_Witness ==
    /\ result.op = "get_user_preferences"
    /\ result.error
    /\ result.ret = None
    /\ RowsOf(db.user_preferences, result.user_id) # {}

\* C16: when create_engine or create_all fails the construction fails for the
\* caller, Database.__init__ by raising and init_db by returning None instead
\* of an object, and no table operation is called until a construction
\* succeeds.
C16_OpenFailsLoudly ==
    [][/\ Called("__init__") /\ result'.error
            => result'.ret = Raised /\ state' = "unopened"
       /\ Called("init_db") /\ result'.error
            => result'.ret # Handle /\ state' = "unopened"
       /\ state = "unopened" /\ clock' = clock
            => result'.op \in {"__init__", "init_db"}]_vars

\* C16 witness: the constructor raised on a file that holds rows, and the
\* caller holds no object
C16_Witness ==
    /\ result.op = "__init__"
    /\ result.error
    /\ result.ret = Raised
    /\ state = "unopened"
    /\ db.watchlists # <<>>

\* C17: close() returns normally whether or not session.close() raises,
\* leaves the committed rows as they are, and a close() of an object that is
\* closed already changes nothing at all.
C17_CloseIdempotent ==
    [][Called("close") =>
         /\ result'.ret = None
         /\ db' = db
         /\ state' = "closed"
         /\ state = "closed" => session' = session]_vars

\* C17 witness: session.close() raised in a close(), the file holding rows
\* of every table
C17_Witness ==
    /\ result.op = "close"
    /\ result.error
    /\ state = "closed"
    /\ db.watchlists # <<>> /\ db.search_history # <<>> /\ db.user_preferences # <<>>

\* C18: between two calls the session holds nothing that is not committed,
\* whichever path the last call took, so a read returns what the committed
\* rows give.
C18_NothingPending ==
    /\ [](session = db)
    /\ [][/\ Called("get_watchlist") /\ ~result'.error
               => result'.ret \in WatchlistResults(db.watchlists, result'.user_id)
          /\ Called("get_recent_searches") /\ ~result'.error
               => result'.ret \in RecentSearchesResults(db.search_history, result'.user_id)
          /\ Called("get_user_preferences") /\ ~result'.error
               => result'.ret \in UserPreferencesResults(db.user_preferences,
                                                        result'.user_id)]_vars

\* C18 witness: get_watchlist failed for the user who holds the one row of
\* the watchlist, and the session holds the committed rows
C18_Witness ==
    /\ result.op = "get_watchlist"
    /\ result.error
    /\ RowsOf(db.watchlists, result.user_id) # {}
    /\ Len(db.watchlists) = 1
    /\ session = db

\* C19: two Database objects on one file whose add_to_watchlist calls for the
\* same (user_id, ticker) interleave leave at most one watchlist row for the
\* pair, and at most one of the two calls returns True.
C19_SharedWatchlistUnique ==
    /\ \A u \in Users, t \in AllTickers :
         Cardinality(RowsFor(db.watchlists, u, t)) <= 1
    /\ ~ /\ result.op = "add_to_watchlist" /\ result.ret = TRUE
         /\ peer.pc = "idle" /\ peer.op = "add_to_watchlist" /\ peer.ret = TRUE
         /\ peer.user_id = result.user_id /\ peer.arg = result.arg

\* C20: add_to_watchlist and remove_from_watchlist change only watchlist rows
\* of their user_id, add_to_search_history (its eviction included) only
\* search_history rows of its user_id, update_user_preferences only the
\* user_preferences record of its user_id: the other tables and the other
\* users' rows are the same after the call.
C20_Frame ==
    [][LET u == result'.user_id
       IN  /\ Called("add_to_watchlist") \/ Called("remove_from_watchlist") =>
                /\ db'.search_history = db.search_history
                /\ db'.user_preferences = db.user_preferences
                /\ Others(db'.watchlists, u) = Others(db.watchlists, u)
           /\ Called("add_to_search_history") =>
                /\ db'.watchlists = db.watchlists
                /\ db'.user_preferences = db.user_preferences
                /\ Others(db'.search_history, u) = Others(db.search_history, u)
           /\ Called("update_user_preferences") =>
                /\ db'.watchlists = db.watchlists
                /\ db'.search_history = db.search_history
                /\ Others(db'.user_preferences, u) = Others(db.user_preferences, u)]_vars

\* C20 witness: a search evicted a row of its user while the other user has
\* search rows and the other two tables hold rows
C20_Witness ==
    /\ result.op = "add_to_search_history"
    /\ result.evicted > 0
    /\ Others(db.search_history, result.user_id) # <<>>
    /\ db.watchlists # <<>>
    /\ db.user_preferences # <<>>

====
